---- MODULE Spec2Model ----
(***************************************************************************)
(* Model of the actuarial-symbols web component library                    *)
(* (actuarial-symbols.refactored.js).                                      *)
(*                                                                         *)
(* A JavaScript string is the sequence of its characters, each character a *)
(* one-character TLA+ string: "x|y" is <<"x", "|", "y">>.                  *)
(*                                                                         *)
(* A MathML node is a record [tag, attrs, kids, text]:                     *)
(*   an element  [tag |-> "mi", attrs |-> {<<k, v>>...}, kids |-> <<...>>, *)
(*                text |-> <<>>]                                           *)
(*   a text node [tag |-> "#text", attrs |-> {}, kids |-> <<>>,            *)
(*                text |-> <<chars>>]                                      *)
(* A JavaScript null child is the record with tag "#null"; an expression   *)
(* that raised has the value with tag "#throw", and every expression built *)
(* from it has that value too.                                             *)
(***************************************************************************)
EXTENDS Integers, Sequences, FiniteSets, TLC

VARIABLES
    input,      \* the text handed to the parsing functions
    call,       \* the last call of a parsing function: its name and options
    ret,        \* the tree that call returned
    kind,       \* the custom element's tag name
    attrs,      \* the element's attributes: name -> [has, val]
    rendered,   \* ActuarialSymbolBase.rendered
    children,   \* the element's child nodes, in order
    frames,     \* animation-frame callbacks queued by connectedCallback
    sets,       \* attribute changes made by the page after creation
    runs,       \* how many times render() was entered
    connected   \* the element is in the document

vars == <<input, call, ret, kind, attrs, rendered, children, frames, sets, runs, connected>>

parseVars == <<input, call, ret>>
elemVars == <<kind, attrs, rendered, children, frames, sets, runs, connected>>

----------------------------------------------------------------------------
\* Bounds of the model.

\* Longest text enumerated over Alphabet.
MaxLen == 3

\* Most animation-frame callbacks queued at one time.
MaxFrames == 2

\* Most attribute changes after the element was created.
MaxSets == 1

\* Most executions of render() that raise.
MaxRuns == 2

----------------------------------------------------------------------------
\* Characters.

Digits == {"0", "1", "2", "3", "4", "5", "6", "7", "8", "9"}

LowerLetters ==
    {"a", "b", "c", "d", "e", "f", "g", "h", "i", "j", "k", "l", "m",
     "n", "o", "p", "q", "r", "s", "t", "u", "v", "w", "x", "y", "z"}

UpperLetters ==
    {"A", "B", "C", "D", "E", "F", "G", "H", "I", "J", "K", "L", "M",
     "N", "O", "P", "Q", "R", "S", "T", "U", "V", "W", "X", "Y", "Z"}

\* String.prototype.trim strips these (the model's texts hold only the first).
WhiteSpace == {" ", "\t", "\n", "\r"}

\* /\d/
IsDigit(c) == c \in Digits

\* /[a-z]/i
IsLetter(c) == c \in LowerLetters \cup UpperLetters

\* /[nmkt]/
IsDurationLetter(c) == c \in {"n", "m", "k", "t"}

----------------------------------------------------------------------------
\* String operations.

\* text.includes(c), c one character
includes(s, c) == \E i \in 1..Len(s) : s[i] = c

IndexOf(s, c) == CHOOSE i \in 1..Len(s) : s[i] = c /\ \A j \in 1..(i - 1) : s[j] # c

RECURSIVE split(_, _)
\* text.split(sep), sep one character
split(s, sep) ==
    IF ~includes(s, sep) THEN <<s>>
    ELSE LET i == IndexOf(s, sep)
         IN  <<SubSeq(s, 1, i - 1)>> \o split(SubSeq(s, i + 1, Len(s)), sep)

RECURSIVE trimStart(_)
trimStart(s) ==
    IF s # <<>> /\ Head(s) \in WhiteSpace THEN trimStart(Tail(s)) ELSE s

RECURSIVE trimEnd(_)
trimEnd(s) ==
    IF s # <<>> /\ s[Len(s)] \in WhiteSpace THEN trimEnd(SubSeq(s, 1, Len(s) - 1)) ELSE s

\* part.trim()
trim(s) == trimEnd(trimStart(s))

\* text.match(/\d+\|/): somewhere a run of one or more digits, then the divider
matchDigitsDivider(s) ==
    \E i \in 1..Len(s) : \E j \in i..(Len(s) - 1) :
        /\ \A k \in i..j : IsDigit(s[k])
        /\ s[j + 1] = "|"

\* part.match(/^[nmkt]$/)
matchDurationLetter(s) == Len(s) = 1 /\ IsDurationLetter(s[1])

\* part.match(/^\d+$/)
matchAllDigits(s) == Len(s) >= 1 /\ \A k \in 1..Len(s) : IsDigit(s[k])

DigitChars == <<"0", "1", "2", "3", "4", "5", "6", "7", "8", "9">>

RECURSIVE NumberToString(_)
\* String(n) for a non-negative integer n
NumberToString(n) ==
    IF n < 10 THEN <<DigitChars[n + 1]>>
    ELSE NumberToString(n \div 10) \o <<DigitChars[(n % 10) + 1]>>

----------------------------------------------------------------------------
\* MathML nodes.

NullNode == [tag |-> "#null", attrs |-> {}, kids |-> <<>>, text |-> <<>>]

\* A string child: createMathML appends it as a text node.
TextNode(s) == [tag |-> "#text", attrs |-> {}, kids |-> <<>>, text |-> s]

NoAttrs == {}

Stretchy == {<<"stretchy", "false">>}

\* The value of an expression that raised an exception.
ThrowNode == [tag |-> "#throw", attrs |-> {}, kids |-> <<>>, text |-> <<>>]

Throws(node) == node.tag = "#throw"

\* A truthy child that is neither a string nor a Node (a function, a plain
\* object): el.appendChild(child) raises a TypeError.
NotANode == [tag |-> "#object", attrs |-> {}, kids |-> <<>>, text |-> <<>>]

\* createMathML(tag, attrs, children): string children become text nodes, other
\* truthy children are appended, null children are skipped.
createMathML(tag, as, cs) ==
    IF \E i \in 1..Len(cs) : cs[i].tag \in {"#throw", "#object"} THEN ThrowNode
    ELSE [tag |-> tag, attrs |-> as,
          kids |-> SelectSeq(cs, LAMBDA c : c.tag # "#null"),
          text |-> <<>>]

\* node.appendChild(child)
appendChild(node, child) ==
    IF Throws(node) \/ child.tag \in {"#throw", "#object"} THEN ThrowNode
    ELSE [node EXCEPT !.kids = Append(@, child)]

\* The decoration characters, named by their code points:
\* U+00AF macron, U+00A8 diaeresis, U+00B0 degree sign.
Macron == <<"U+00AF">>

Diaeresis == <<"U+00A8">>

Ring == <<"U+00B0">>

\* createMathML(tag, {}, [content]) for a string content
Leaf(tag, s) == createMathML(tag, NoAttrs, <<TextNode(s)>>)

\* createMathML('mo', { stretchy: 'false' }, ['|'])
DividerMark == createMathML("mo", Stretchy, <<TextNode(<<"|">>)>>)

----------------------------------------------------------------------------
\* The parsing functions of ActuarialSymbolBase.

\* createAngle with a fault: the divider is appended for every type.
createAngleAlwaysDivider(content, type) ==
    createMathML("mover", NoAttrs,
        <<createMathML("mrow", NoAttrs, <<Leaf("mi", content), DividerMark>>),
          Leaf("mo", Macron)>>)

\* createAngle(content, type): an overbar over the content, with a divider
\* after the content for type 'annuity'.
createAngle(content, type) ==
    LET mrowChildren ==
            IF type = "annuity"
            THEN <<Leaf("mi", content), DividerMark>>
            ELSE <<Leaf("mi", content)>>
        innerMrow == createMathML("mrow", NoAttrs, mrowChildren)
    IN  createMathML("mover", NoAttrs, <<innerMrow, Leaf("mo", Macron)>>)

\* An entry of a precedence list is [pos, num, top]. A field the entry lacks
\* (undefined) is -1 for pos and num and "absent" for top; the entry null is
\* NullEntry.
NullEntry == [pos |-> -1, num |-> -1, top |-> "#null"]

\* A decoded precedence value that is not an array: null, a number, an object.
NotAnArray == <<[pos |-> -1, num |-> -1, top |-> "#value"]>>

\* precedence.find(p => p.pos === index) raises: the callback reads p.pos of a
\* null entry before any entry has matched.
findRaises(precedence, index) ==
    \E i \in 1..Len(precedence) :
        /\ precedence[i] = NullEntry
        /\ \A j \in 1..(i - 1) : precedence[j].pos # index

\* String(prec.num): "undefined" when the entry has no num.
numText(num) ==
    IF num = -1 THEN <<"u", "n", "d", "e", "f", "i", "n", "e", "d">>
    ELSE NumberToString(num)

\* findPrec with a fault: the last entry with that pos is taken.
findPrecLast(precedence, index) ==
    LET hits == {i \in 1..Len(precedence) : precedence[i].pos = index}
    IN  IF hits = {} THEN 0
        ELSE CHOOSE i \in hits : \A j \in hits : i >= j

\* precedence.find(p => p.pos === index): the position in the list of the
\* first entry with that pos, 0 when there is none.
findPrec(precedence, index) ==
    LET hits == {i \in 1..Len(precedence) : precedence[i].pos = index}
    IN  IF hits = {} THEN 0
        ELSE CHOOSE i \in hits : \A j \in hits : i <= j

\* precedenceNode with a fault: the order number goes below unless top is
\* false.
precedenceNodeSidesSwapped(life, index, precedence) ==
    LET at == findPrec(precedence, index)
    IN  IF at # 0
        THEN LET prec == precedence[at]
                 script == IF prec.top = "false" THEN "mover" ELSE "munder"
             IN  createMathML(script, NoAttrs,
                     <<Leaf("mi", <<life>>), Leaf("mn", NumberToString(prec.num))>>)
        ELSE Leaf("mi", <<life>>)

\* The body of lives.forEach((life, index) => ...) of parseStatus: the node
\* appended for the life at the 0-based index.
precedenceNode(life, index, precedence) ==
    LET at == findPrec(precedence, index)
    IN  IF findRaises(precedence, index) THEN ThrowNode
        ELSE IF at # 0
        THEN LET prec == precedence[at]
                 script == IF prec.top = "false" THEN "munder" ELSE "mover"
             IN  createMathML(script, NoAttrs,
                     <<Leaf("mi", <<life>>), Leaf("mn", numText(prec.num))>>)
        ELSE Leaf("mi", <<life>>)

\* parseStatus with a fault: the precedence list is looked at before
\* lastSurvivor.
parseStatusPrecedenceFirst(text, precedence, lastSurvivor) ==
    LET lives == SelectSeq(text, IsLetter)
    IN  IF Len(lives) = 0 THEN Leaf("mi", text)
        ELSE IF Len(precedence) # 0
        THEN createMathML("mrow", NoAttrs,
                 [i \in 1..Len(lives) |-> precedenceNode(lives[i], i - 1, precedence)])
        ELSE IF lastSurvivor
        THEN createMathML("mover", NoAttrs,
                 <<createMathML("mrow", NoAttrs,
                       [i \in 1..Len(lives) |-> Leaf("mi", <<lives[i]>>)]),
                   Leaf("mo", Macron)>>)
        ELSE IF Len(lives) = 1 THEN Leaf("mi", <<lives[1]>>)
        ELSE createMathML("mrow", NoAttrs,
                 [i \in 1..Len(lives) |-> Leaf("mi", <<lives[i]>>)])

\* parseStatus with a fault: with a precedence list, the annotated lives come
\* first, in the order of the list's entries, then the lives without entry.
parseStatusInListOrder(text, precedence, lastSurvivor) ==
    LET lives == SelectSeq(text, IsLetter)
        named == SelectSeq(precedence,
                     LAMBDA p : p.pos < Len(lives) /\ precedence[findPrec(precedence, p.pos)] = p)
        first == [i \in 1..Len(named) |->
                     precedenceNode(lives[named[i].pos + 1], named[i].pos, precedence)]
        plain == SelectSeq(lives, LAMBDA c : \E i \in 1..Len(lives) :
                     lives[i] = c /\ findPrec(precedence, i - 1) = 0)
        rest == [i \in 1..Len(plain) |-> Leaf("mi", <<plain[i]>>)]
    IN  IF Len(lives) = 0 THEN Leaf("mi", text)
        ELSE IF lastSurvivor
        THEN createMathML("mover", NoAttrs,
                 <<createMathML("mrow", NoAttrs,
                       [i \in 1..Len(lives) |-> Leaf("mi", <<lives[i]>>)]),
                   Leaf("mo", Macron)>>)
        ELSE IF Len(precedence) = 0
        THEN IF Len(lives) = 1 THEN Leaf("mi", <<lives[1]>>)
             ELSE createMathML("mrow", NoAttrs,
                      [i \in 1..Len(lives) |-> Leaf("mi", <<lives[i]>>)])
        ELSE createMathML("mrow", NoAttrs, first \o rest)

\* parseStatus with a fault: without precedence a single life is wrapped in
\* a row as well.
parseStatusAlwaysRow(text, precedence, lastSurvivor) ==
    LET lives == SelectSeq(text, IsLetter)
    IN  IF Len(lives) = 0 THEN Leaf("mi", text)
        ELSE IF lastSurvivor
        THEN createMathML("mover", NoAttrs,
                 <<createMathML("mrow", NoAttrs,
                       [i \in 1..Len(lives) |-> Leaf("mi", <<lives[i]>>)]),
                   Leaf("mo", Macron)>>)
        ELSE IF Len(precedence) = 0
        THEN createMathML("mrow", NoAttrs,
                 [i \in 1..Len(lives) |-> Leaf("mi", <<lives[i]>>)])
        ELSE createMathML("mrow", NoAttrs,
                 [i \in 1..Len(lives) |-> precedenceNode(lives[i], i - 1, precedence)])

\* parseStatus with a fault: the fallback for a text without letters is taken
\* after the lastSurvivor and precedence branches, and shows the trimmed text.
parseStatusLateFallback(text, precedence, lastSurvivor) ==
    LET lives == SelectSeq(text, IsLetter)
    IN  IF lastSurvivor
        THEN createMathML("mover", NoAttrs,
                 <<createMathML("mrow", NoAttrs,
                       [i \in 1..Len(lives) |-> Leaf("mi", <<lives[i]>>)]),
                   Leaf("mo", Macron)>>)
        ELSE IF Len(lives) = 0 THEN Leaf("mi", trim(text))
        ELSE IF Len(precedence) = 0
        THEN IF Len(lives) = 1 THEN Leaf("mi", <<lives[1]>>)
             ELSE createMathML("mrow", NoAttrs,
                      [i \in 1..Len(lives) |-> Leaf("mi", <<lives[i]>>)])
        ELSE createMathML("mrow", NoAttrs,
                 [i \in 1..Len(lives) |-> precedenceNode(lives[i], i - 1, precedence)])

\* parseStatus(text, precedence, lastSurvivor). For a precedence that is not
\* an array, precedence.length raises (null) or is undefined and
\* precedence.find is not a function: a TypeError either way.
parseStatus(text, precedence, lastSurvivor) ==
    LET lives == SelectSeq(text, IsLetter)
    IN  IF Len(lives) = 0 THEN Leaf("mi", text)
        ELSE IF lastSurvivor
        THEN LET innerMrow ==
                     createMathML("mrow", NoAttrs,
                         [i \in 1..Len(lives) |-> Leaf("mi", <<lives[i]>>)])
             IN  createMathML("mover", NoAttrs, <<innerMrow, Leaf("mo", Macron)>>)
        ELSE IF precedence = NotAnArray THEN ThrowNode
        ELSE IF Len(precedence) = 0
        THEN IF Len(lives) = 1 THEN Leaf("mi", <<lives[1]>>)
             ELSE createMathML("mrow", NoAttrs,
                      [i \in 1..Len(lives) |-> Leaf("mi", <<lives[i]>>)])
        ELSE createMathML("mrow", NoAttrs,
                 [i \in 1..Len(lives) |-> precedenceNode(lives[i], i - 1, precedence)])

\* reversionaryRow with a fault: the sides are not trimmed.
reversionaryRowUntrimmed(text) ==
    LET parts == split(text, "|")
    IN  createMathML("mrow", NoAttrs,
            [j \in 1..(2 * Len(parts) - 1) |->
                IF j % 2 = 1 THEN Leaf("mi", parts[(j + 1) \div 2])
                ELSE DividerMark])

\* The first branch of parseSubscript: the sides of text.split('|'), each a
\* leaf of its trimmed text, with a divider mark before every side but the first.
reversionaryRow(text) ==
    LET parts == split(text, "|")
    IN  createMathML("mrow", NoAttrs,
            [j \in 1..(2 * Len(parts) - 1) |->
                IF j % 2 = 1 THEN Leaf("mi", trim(parts[(j + 1) \div 2]))
                ELSE DividerMark])

\* durationNode with a fault: only the duration letters are angle-marked,
\* digits are not (the rule before the fix noted at line 90).
durationNodeLettersOnly(part, angleType) ==
    IF angleType # "none" /\ matchDurationLetter(part)
    THEN createAngle(part, angleType)
    ELSE Leaf("mi", part)

\* The node of one duration part (already trimmed) of the colon branch.
durationNode(part, angleType) ==
    IF angleType # "none" /\ (matchDurationLetter(part) \/ matchAllDigits(part))
    THEN createAngle(part, angleType)
    ELSE Leaf("mi", part)

\* colonRow with a fault: the duration parts are appended last part first.
colonRowReversed(text, angleType, precedence, lastSurvivor) ==
    LET parts == split(text, ":")
    IN  createMathML("mrow", NoAttrs,
            [j \in 1..(2 * Len(parts) - 1) |->
                IF j = 1 THEN parseStatus(parts[1], precedence, lastSurvivor)
                ELSE IF j % 2 = 0 THEN Leaf("mo", <<":">>)
                ELSE durationNode(trim(parts[Len(parts) + 2 - ((j + 1) \div 2)]), angleType)])

\* The second branch of parseSubscript: the status, then for every further
\* part of text.split(':') a colon and the part's node.
colonRow(text, angleType, precedence, lastSurvivor) ==
    LET parts == split(text, ":")
    IN  createMathML("mrow", NoAttrs,
            [j \in 1..(2 * Len(parts) - 1) |->
                IF j = 1 THEN parseStatus(parts[1], precedence, lastSurvivor)
                ELSE IF j % 2 = 0 THEN Leaf("mo", <<":">>)
                ELSE durationNode(trim(parts[(j + 1) \div 2]), angleType)])

\* parseSubscript with a fault: the colon is looked for before the divider.
parseSubscriptColonFirst(text, angleType, precedence, lastSurvivor) ==
    IF includes(text, ":")
    THEN colonRow(text, angleType, precedence, lastSurvivor)
    ELSE IF includes(text, "|") /\ ~matchDigitsDivider(text)
    THEN reversionaryRow(text)
    ELSE parseStatus(text, precedence, lastSurvivor)

\* parseSubscript(text, { angleType, precedence, lastSurvivor })
parseSubscript(text, angleType, precedence, lastSurvivor) ==
    IF includes(text, "|") /\ ~matchDigitsDivider(text)
    THEN reversionaryRow(text)
    ELSE IF includes(text, ":")
    THEN colonRow(text, angleType, precedence, lastSurvivor)
    ELSE parseStatus(text, precedence, lastSurvivor)

----------------------------------------------------------------------------
\* The remaining utility methods of ActuarialSymbolBase.

\* Property names every JavaScript object inherits from Object.prototype:
\* decorMap[name] is a function or an object for them, not a string.
ObjectPrototypeKeys ==
    { <<"c", "o", "n", "s", "t", "r", "u", "c", "t", "o", "r">>,
      <<"t", "o", "S", "t", "r", "i", "n", "g">>,
      <<"v", "a", "l", "u", "e", "O", "f">> }

Bar == <<"b", "a", "r">>

Ddot == <<"d", "d", "o", "t">>

RingName == <<"r", "i", "n", "g">>

\* decorMap[decoration]: the mark's text, NotANode for an inherited property,
\* NullNode (undefined) for any other name.
decorMap(decoration) ==
    IF decoration = Bar THEN TextNode(Macron)
    ELSE IF decoration = Ddot THEN TextNode(Diaeresis)
    ELSE IF decoration = RingName THEN TextNode(Ring)
    ELSE IF decoration \in ObjectPrototypeKeys THEN NotANode
    ELSE NullNode

\* applyDecoration(symbol, decoration)
applyDecoration(symbol, decoration) ==
    LET symbolEl == Leaf("mi", symbol)
    IN  IF decoration # <<>> /\ decorMap(decoration) # NullNode
        THEN createMathML("mover", NoAttrs,
                 <<symbolEl, createMathML("mo", NoAttrs, <<decorMap(decoration)>>)>>)
        ELSE symbolEl

\* parseUpperRight(text)
parseUpperRight(text) ==
    IF text = <<>> THEN NullNode
    ELSE IF \/ Head(text) = "(" /\ text[Len(text)] = ")"
            \/ Head(text) = "{" /\ text[Len(text)] = "}"
    THEN createMathML("mrow", NoAttrs,
             <<Leaf("mo", <<Head(text)>>),
               Leaf("mi", SubSeq(text, 2, Len(text) - 1)),
               Leaf("mo", <<text[Len(text)]>>)>>)
    ELSE Leaf("mi", text)

----------------------------------------------------------------------------
\* The inputs the parsing functions are applied to.

Alphabet == {"x", "y", "n", "5", "|", ":", " "}

\* Texts named by the documentation and the comments of the library.
Examples ==
    { <<"6", "0", "|", "x", ":", "n">>,
      <<"5", "|", "x", ":", "n">>,
      <<"x", "y", "|", "z">>,
      <<"x", " ", "|", " ", "y">>,
      <<"x", ":", "n", "m">>,
      <<"x", ":", "5", "|">>,
      <<"x", "y", ":", "1", "0">>,
      <<"x", ":", "y", ":", "n">>,
      <<"x", ":", "z">>,
      <<"x", ":", "t">>,
      <<"X", "y">>,
      <<"4", "5">> }

Texts == (UNION {[1..k -> Alphabet] : k \in 0..MaxLen}) \cup Examples

AngleTypes == {"none", "annuity", "insurance"}

\* Precedence lists: [{pos, num, top}, ...]; top is "true", "false" or "absent".
PrecedenceLists ==
    { <<>>,
      <<[pos |-> 0, num |-> 1, top |-> "true"]>>,
      <<[pos |-> 1, num |-> 12, top |-> "false"]>>,
      <<[pos |-> 1, num |-> 1, top |-> "absent"], [pos |-> 0, num |-> 2, top |-> "false"]>>,
      <<[pos |-> 0, num |-> 1, top |-> "true"], [pos |-> 0, num |-> 2, top |-> "false"]>> }

\* Values of the decoration argument: none, the three names of decorMap, and
\* other attribute texts.
Decorations ==
    {<<>>, Bar, Ddot, RingName, <<"x">>, <<"B", "a", "r">>} \cup ObjectPrototypeKeys

\* Precedence lists outside the data model: entries that are null or lack a
\* field.
MalformedLists ==
    { <<NullEntry>>,
      <<[pos |-> 0, num |-> 1, top |-> "true"], NullEntry>>,
      <<[pos |-> -1, num |-> 1, top |-> "true"]>>,
      <<[pos |-> 0, num |-> -1, top |-> "absent"]>> }

NoCall ==
    [fn |-> "none", angleType |-> "none", precedence |-> <<>>,
     lastSurvivor |-> FALSE, decoration |-> <<>>]

\* The element of a specification that only applies the parsing functions.
NoElement ==
    /\ kind = "none"
    /\ attrs = <<>>
    /\ rendered = FALSE
    /\ children = <<>>
    /\ frames = 0
    /\ sets = 0
    /\ runs = 0
    /\ connected = FALSE

InitParse ==
    /\ input \in Texts
    /\ call = NoCall
    /\ ret = NullNode
    /\ NoElement

CallCreateAngle ==
    \E type \in AngleTypes :
        /\ call.fn = "none"
        /\ call' = [fn |-> "createAngle", angleType |-> type,
                    precedence |-> <<>>, lastSurvivor |-> FALSE, decoration |-> <<>>]
        /\ ret' = createAngle(input, type)
        /\ UNCHANGED <<input, elemVars>>

CallParseStatus ==
    \E precedence \in PrecedenceLists, lastSurvivor \in BOOLEAN :
        /\ call.fn = "none"
        /\ call' = [fn |-> "parseStatus", angleType |-> "none",
                    precedence |-> precedence, lastSurvivor |-> lastSurvivor,
                    decoration |-> <<>>]
        /\ ret' = parseStatus(input, precedence, lastSurvivor)
        /\ UNCHANGED <<input, elemVars>>

CallParseSubscript ==
    \E angleType \in AngleTypes, precedence \in PrecedenceLists, lastSurvivor \in BOOLEAN :
        /\ call.fn = "none"
        /\ call' = [fn |-> "parseSubscript", angleType |-> angleType,
                    precedence |-> precedence, lastSurvivor |-> lastSurvivor,
                    decoration |-> <<>>]
        /\ ret' = parseSubscript(input, angleType, precedence, lastSurvivor)
        /\ UNCHANGED <<input, elemVars>>

\* parseSubscript with a precedence list outside the data model; ret is
\* ThrowNode when the call raises.
CallParseSubscriptMalformed ==
    \E angleType \in AngleTypes, precedence \in MalformedLists, lastSurvivor \in BOOLEAN :
        /\ call.fn = "none"
        /\ call' = [fn |-> "parseSubscriptMalformed", angleType |-> angleType,
                    precedence |-> precedence, lastSurvivor |-> lastSurvivor,
                    decoration |-> <<>>]
        /\ ret' = parseSubscript(input, angleType, precedence, lastSurvivor)
        /\ UNCHANGED <<input, elemVars>>

\* applyDecoration(input, decoration): ret is ThrowNode when the call raises.
CallApplyDecoration ==
    \E decoration \in Decorations :
        /\ call.fn = "none"
        /\ call' = [fn |-> "applyDecoration", angleType |-> "none",
                    precedence |-> <<>>, lastSurvivor |-> FALSE,
                    decoration |-> decoration]
        /\ ret' = applyDecoration(input, decoration)
        /\ UNCHANGED <<input, elemVars>>

\* Each behaviour applies one function once to its input: the functions keep
\* no state, so a second call would show nothing the first does not.
NextParse ==
    \/ CallCreateAngle
    \/ CallParseStatus
    \/ CallParseSubscript
    \/ CallParseSubscriptMalformed
    \/ CallApplyDecoration

SpecParse == InitParse /\ [][NextParse]_vars

----------------------------------------------------------------------------
\* Attributes. An attribute is [has, val]: getAttribute gives null when has is
\* FALSE and val otherwise; val is a text, and for precedence the JSON text as
\* one string. The attribute last-survivor is written last_survivor.

Absent == [has |-> FALSE, val |-> <<>>]

AbsentJSON == [has |-> FALSE, val |-> ""]

Attr(v) == [has |-> TRUE, val |-> v]

\* this.getAttribute(name) || default
attrOr(a, name, default) ==
    IF a[name].has /\ a[name].val # <<>> THEN a[name].val ELSE default

\* The value of this.getAttribute(name) is truthy.
attrTruthy(a, name) == a[name].has /\ a[name].val # <<>>

\* JSON.parse on the precedence texts of the model: ok is FALSE when it raises
\* a SyntaxError.
JSONparse(t) ==
    IF t = "[]" THEN [ok |-> TRUE, value |-> <<>>]
    ELSE IF t = "[{\"pos\":0,\"num\":1}]"
    THEN [ok |-> TRUE, value |-> <<[pos |-> 0, num |-> 1, top |-> "absent"]>>]
    ELSE IF t = "[{\"pos\":1,\"num\":2,\"top\":false}]"
    THEN [ok |-> TRUE, value |-> <<[pos |-> 1, num |-> 2, top |-> "false"]>>]
    ELSE IF t \in {"null", "5", "{}"} THEN [ok |-> TRUE, value |-> NotAnArray]
    ELSE [ok |-> FALSE, value |-> <<>>]

Inline == {<<"display", "inline">>}

\* None with a fault: no node, so the slot is dropped by createMathML.
NoneOmitted == NullNode

None == createMathML("none", NoAttrs, <<>>)

----------------------------------------------------------------------------
\* The render methods. Each gives the <math> node the method appends as its
\* last statement, or ThrowNode when the method raises before that.

\* ActSymbol.render with one fault: "sup" gives the sup form (base,
\* upper-right) when only ur is set; "swapped" puts the upper-right node before
\* the lower-right one in the sub-sup form; "wrapped" takes the four-corner
\* form whenever p is set.
ActSymbolRenderWith(a, fault) ==
    LET ll == attrOr(a, "ll", <<>>)
        ul == attrOr(a, "ul", <<>>)
        p == attrOr(a, "p", <<>>)
        symbol == attrOr(a, "symbol", <<"x">>)
        lr == attrOr(a, "lr", <<>>)
        ur == attrOr(a, "ur", <<>>)
        decoration == attrOr(a, "decoration", <<>>)
        lastSurvivor == a["last_survivor"].has
        parsed == JSONparse(IF a["precedence"].has /\ a["precedence"].val # ""
                            THEN a["precedence"].val ELSE "[]")
        precedence == IF parsed.ok THEN parsed.value ELSE <<>>
        math == createMathML("math", Inline, <<>>)
        mainSymbol == applyDecoration(symbol, decoration)
        lrElement == parseSubscript(lr, "annuity", precedence, lastSurvivor)
        finalSymbol ==
            IF ll # <<>> \/ ul # <<>> \/ (fault = "wrapped" /\ p # <<>>)
            THEN createMathML("mmultiscripts", NoAttrs,
                     <<mainSymbol,
                       lrElement,
                       IF ur # <<>> THEN parseUpperRight(ur) ELSE None,
                       createMathML("mprescripts", NoAttrs, <<>>),
                       IF ll # <<>> THEN Leaf("mi", ll) ELSE None,
                       IF ul # <<>> THEN Leaf("mi", ul) ELSE None>>)
            ELSE IF fault = "sup" /\ lr = <<>> /\ ur # <<>>
            THEN createMathML("msup", NoAttrs, <<mainSymbol, parseUpperRight(ur)>>)
            ELSE IF fault = "swapped" /\ ur # <<>>
            THEN createMathML("msubsup", NoAttrs,
                     <<mainSymbol, parseUpperRight(ur), lrElement>>)
            ELSE IF lr # <<>> \/ ur # <<>>
            THEN createMathML(IF ur # <<>> THEN "msubsup" ELSE "msub", NoAttrs,
                     <<mainSymbol,
                       lrElement,
                       IF ur # <<>> THEN parseUpperRight(ur) ELSE NullNode>>)
            ELSE mainSymbol
    IN  IF p # <<>>
        THEN appendChild(appendChild(appendChild(appendChild(math,
                 Leaf("mi", p)), Leaf("mo", <<"(">>)), finalSymbol), Leaf("mo", <<")">>))
        ELSE appendChild(math, finalSymbol)

ActSymbolRenderSupForm(a) == ActSymbolRenderWith(a, "sup")

ActSymbolRenderSwapped(a) == ActSymbolRenderWith(a, "swapped")

ActSymbolRenderWrapped(a) == ActSymbolRenderWith(a, "wrapped")

\* ActSymbol.render
ActSymbolRender(a) ==
    LET ll == attrOr(a, "ll", <<>>)
        ul == attrOr(a, "ul", <<>>)
        p == attrOr(a, "p", <<>>)
        symbol == attrOr(a, "symbol", <<"x">>)
        lr == attrOr(a, "lr", <<>>)
        ur == attrOr(a, "ur", <<>>)
        decoration == attrOr(a, "decoration", <<>>)
        lastSurvivor == a["last_survivor"].has
        parsed == JSONparse(IF a["precedence"].has /\ a["precedence"].val # ""
                            THEN a["precedence"].val ELSE "[]")
        precedence == IF parsed.ok THEN parsed.value ELSE <<>>
        math == createMathML("math", Inline, <<>>)
        mainSymbol == applyDecoration(symbol, decoration)
        lrElement == parseSubscript(lr, "annuity", precedence, lastSurvivor)
        finalSymbol ==
            IF ll # <<>> \/ ul # <<>>
            THEN createMathML("mmultiscripts", NoAttrs,
                     <<mainSymbol,
                       lrElement,
                       IF ur # <<>> THEN parseUpperRight(ur) ELSE None,
                       createMathML("mprescripts", NoAttrs, <<>>),
                       IF ll # <<>> THEN Leaf("mi", ll) ELSE None,
                       IF ul # <<>> THEN Leaf("mi", ul) ELSE None>>)
            ELSE IF lr # <<>> \/ ur # <<>>
            THEN createMathML(IF ur # <<>> THEN "msubsup" ELSE "msub", NoAttrs,
                     <<mainSymbol,
                       lrElement,
                       IF ur # <<>> THEN parseUpperRight(ur) ELSE NullNode>>)
            ELSE mainSymbol
    IN  IF p # <<>>
        THEN appendChild(appendChild(appendChild(appendChild(math,
                 Leaf("mi", p)), Leaf("mo", <<"(">>)), finalSymbol), Leaf("mo", <<")">>))
        ELSE appendChild(math, finalSymbol)

Due == <<"d", "u", "e">>

Continuous == <<"c", "o", "n", "t", "i", "n", "u", "o", "u", "s">>

Immediate == <<"i", "m", "m", "e", "d", "i", "a", "t", "e">>

\* decorationMap[type] of ActAnnuity.render; undefined is the empty text.
annuityDecoration(type) ==
    IF type = Due THEN Ddot
    ELSE IF type = Continuous THEN Bar
    ELSE <<>>

\* annuitySubscriptText with a fault: term is never read.
annuitySubscriptTextWithoutTerm(a) ==
    LET age == attrOr(a, "age", <<"x">>)
    IN  IF attrTruthy(a, "defer") THEN a["defer"].val \o <<"|">> \o age
        ELSE age

\* The lower-right text ActAnnuity.render builds from age, term and defer.
annuitySubscriptText(a) ==
    LET age == attrOr(a, "age", <<"x">>)
        withTerm == IF attrTruthy(a, "term") /\ ~includes(age, ":")
                    THEN age \o <<":">> \o a["term"].val
                    ELSE age
    IN  IF attrTruthy(a, "defer") THEN a["defer"].val \o <<"|">> \o withTerm
        ELSE withTerm

\* ActAnnuity.render
ActAnnuityRender(a) ==
    LET type == attrOr(a, "type", Immediate)
        lr == annuitySubscriptText(a)
        mainSymbol == applyDecoration(<<"a">>, annuityDecoration(type))
        lrElement == parseSubscript(lr, "annuity", <<>>, FALSE)
        symbol == createMathML(IF attrTruthy(a, "frequency") THEN "msubsup" ELSE "msub",
                      NoAttrs,
                      <<mainSymbol,
                        lrElement,
                        IF attrTruthy(a, "frequency")
                        THEN parseUpperRight(a["frequency"].val) ELSE NullNode>>)
    IN  createMathML("math", Inline, <<symbol>>)

Term == <<"t", "e", "r", "m">>

Endowment == <<"e", "n", "d", "o", "w", "m", "e", "n", "t">>

PureEndowment == <<"p", "u", "r", "e", "-", "e", "n", "d", "o", "w", "m", "e", "n", "t">>

\* ActInsurance.render
ActInsuranceRender(a) ==
    LET age == attrOr(a, "age", <<"x">>)
        type == attrOr(a, "type", <<"w", "h", "o", "l", "e">>)
        payment == attrOr(a, "payment", <<"e", "o", "y">>)
        lr == IF attrTruthy(a, "term") /\ ~includes(age, ":")
              THEN age \o <<":">> \o a["term"].val
              ELSE age
        decoration == IF payment = Continuous THEN Bar ELSE <<>>
        math == createMathML("math", Inline, <<>>)
        mainSymbol == applyDecoration(<<"A">>, decoration)
        angleTypeForSubscript ==
            IF type = Term \/ type = Endowment THEN "insurance" ELSE "none"
        lrElement == parseSubscript(lr, angleTypeForSubscript, <<>>, FALSE)
        urElement ==
            IF type = Term THEN Leaf("mn", <<"1">>)
            ELSE IF attrTruthy(a, "frequency") THEN parseUpperRight(a["frequency"].val)
            ELSE NullNode
        hasSubscript == lr # <<>>
        hasSuperscript == urElement # NullNode
        finalSymbol ==
            IF hasSuperscript
            THEN createMathML("msubsup", NoAttrs, <<mainSymbol, lrElement, urElement>>)
            ELSE IF hasSubscript
            THEN createMathML("msub", NoAttrs, <<mainSymbol, lrElement>>)
            ELSE mainSymbol
        endowmentSymbol ==
            createMathML("mmultiscripts", NoAttrs,
                <<mainSymbol,
                  lrElement,
                  None,
                  createMathML("mprescripts", NoAttrs, <<>>),
                  Leaf("mi", IF attrTruthy(a, "term") THEN a["term"].val ELSE <<"n">>),
                  None>>)
    IN  IF type = PureEndowment THEN appendChild(math, endowmentSymbol)
        ELSE appendChild(math, finalSymbol)

\* this.render() of the element's class
render(k, a) ==
    IF k = "act-symbol" THEN ActSymbolRender(a)
    ELSE IF k = "act-annuity" THEN ActAnnuityRender(a)
    ELSE ActInsuranceRender(a)

----------------------------------------------------------------------------
\* The custom elements: one element of the page, from its creation on.

Kinds == {"act-symbol", "act-annuity", "act-insurance"}

\* The values the page gives each attribute; Absent is the attribute not set.
SymbolAttrs ==
    [ ll : {Absent, Attr(<<"t">>)},
      ul : {Absent, Attr(<<"k">>)},
      p : {Absent, Attr(<<"P">>)},
      symbol : {Absent, Attr(<<"A">>)},
      lr : {Absent, Attr(<<"x">>), Attr(<<"x", "y">>), Attr(<<"x", "|", "y">>),
            Attr(<<"x", "y", ":", "n">>), Attr(<<"4", "5">>)},
      ur : {Absent, Attr(<<"(", "m", ")">>)},
      decoration : {Absent, Attr(Bar), Attr(<<"c", "o", "n", "s", "t", "r", "u", "c", "t", "o", "r">>)},
      last_survivor : {Absent, Attr(<<>>)},
      precedence : {AbsentJSON, Attr("[{\"pos\":1,\"num\":2,\"top\":false}]"), Attr("oops"),
                    Attr("null")} ]

AnnuityAttrs ==
    [ age : {Absent, Attr(<<>>), Attr(<<"x">>), Attr(<<"x", "y">>), Attr(<<"x", ":", "n">>),
              Attr(<<"4", "5">>)},
      type : {Absent, Attr(Due), Attr(Continuous)},
      term : {Absent, Attr(<<"n">>), Attr(<<"1", "0">>)},
      defer : {Absent, Attr(<<"m">>), Attr(<<"5">>)},
      frequency : {Absent, Attr(<<"(", "m", ")">>)} ]

InsuranceAttrs ==
    [ age : {Absent, Attr(<<"x">>), Attr(<<"x", ":", "n">>)},
      type : {Absent, Attr(Term), Attr(Endowment), Attr(PureEndowment)},
      payment : {Absent, Attr(Continuous)},
      term : {Absent, Attr(<<"n">>)},
      frequency : {Absent, Attr(<<"(", "m", ")">>)} ]

AttrMaps(k) ==
    IF k = "act-symbol" THEN SymbolAttrs
    ELSE IF k = "act-annuity" THEN AnnuityAttrs
    ELSE InsuranceAttrs

\* The attribute a script of the page changes after the element was created,
\* and the values it gives it.
ChangedAttr(k) == IF k = "act-symbol" THEN "lr" ELSE "age"

ChangedValues(k) ==
    IF k = "act-symbol" THEN {Absent, Attr(<<"x">>), Attr(<<"x", "|", "y">>)}
    ELSE {Absent, Attr(<<"x">>), Attr(<<"x", ":", "n">>)}

\* The parsing functions at rest, in a specification of the elements.
NoParse ==
    /\ input = <<>>
    /\ call = NoCall
    /\ ret = NullNode

\* constructor(): rendered is false; the element has the attributes of its tag.
Init ==
    /\ kind \in Kinds
    /\ attrs \in AttrMaps(kind)
    /\ rendered = FALSE
    /\ children = <<>>
    /\ frames = 0
    /\ sets = 0
    /\ runs = 0
    /\ connected = FALSE
    /\ NoParse

\* connectedCallback with a fault: render() runs at once, inside the call.
connectedCallbackRendersNow ==
    /\ frames < MaxFrames
    /\ ~rendered
    /\ ~Throws(render(kind, attrs))
    /\ frames' = frames + 1
    /\ children' = Append(children, render(kind, attrs))
    /\ rendered' = TRUE
    /\ runs' = runs + 1
    /\ connected' = TRUE
    /\ UNCHANGED <<kind, attrs, sets, parseVars>>

\* connectedCallback(): queues one animation-frame callback.
connectedCallback ==
    /\ frames < MaxFrames
    /\ frames' = frames + 1
    /\ connected' = TRUE
    /\ UNCHANGED <<kind, attrs, rendered, children, sets, runs, parseVars>>

\* The callback handed to requestAnimationFrame, when render() returns.
FrameRenders ==
    /\ frames > 0
    /\ ~rendered
    /\ ~Throws(render(kind, attrs))
    /\ frames' = frames - 1
    /\ children' = Append(children, render(kind, attrs))
    /\ rendered' = TRUE
    /\ runs' = runs + 1
    /\ UNCHANGED <<kind, attrs, sets, connected, parseVars>>

\* FrameRaises with a fault: the flag is set although render() raised, as
\* with the assignment placed before the call.
FrameRaisesSetsFlag ==
    /\ frames > 0
    /\ ~rendered
    /\ Throws(render(kind, attrs))
    /\ runs < MaxRuns
    /\ frames' = frames - 1
    /\ runs' = runs + 1
    /\ rendered' = TRUE
    /\ UNCHANGED <<kind, attrs, children, sets, connected, parseVars>>

\* The callback, when render() raises: nothing was appended and the
\* assignment to rendered is not reached.
FrameRaises ==
    /\ frames > 0
    /\ ~rendered
    /\ Throws(render(kind, attrs))
    /\ runs < MaxRuns
    /\ frames' = frames - 1
    /\ runs' = runs + 1
    /\ UNCHANGED <<kind, attrs, rendered, children, sets, connected, parseVars>>

\* The callback, when the element has rendered already.
FrameSkips ==
    /\ frames > 0
    /\ rendered
    /\ frames' = frames - 1
    /\ UNCHANGED <<kind, attrs, rendered, children, sets, runs, connected, parseVars>>

\* SetAttribute with a fault: a rendered element renders again on a change
\* of attribute, as with an attributeChangedCallback.
SetAttributeRendersAgain ==
    \E v \in ChangedValues(kind) :
        /\ sets < MaxSets
        /\ v # attrs[ChangedAttr(kind)]
        /\ attrs' = [attrs EXCEPT ![ChangedAttr(kind)] = v]
        /\ sets' = sets + 1
        /\ children' = IF rendered /\ ~Throws(render(kind, attrs'))
                       THEN <<render(kind, attrs')>> ELSE children
        /\ UNCHANGED <<kind, rendered, frames, runs, connected, parseVars>>

\* A script of the page sets or removes an attribute of the element.
SetAttribute ==
    \E v \in ChangedValues(kind) :
        /\ sets < MaxSets
        /\ v # attrs[ChangedAttr(kind)]
        /\ attrs' = [attrs EXCEPT ![ChangedAttr(kind)] = v]
        /\ sets' = sets + 1
        /\ UNCHANGED <<kind, rendered, children, frames, runs, connected, parseVars>>

\* The page removes the element from the document. No class defines a
\* disconnectedCallback and no frame request is ever cancelled: the queued
\* callbacks stay queued.
Disconnect ==
    /\ connected
    /\ connected' = FALSE
    /\ UNCHANGED <<kind, attrs, rendered, children, frames, sets, runs, parseVars>>

Next ==
    \/ connectedCallback
    \/ FrameRenders
    \/ FrameRaises
    \/ FrameSkips
    \/ SetAttribute
    \/ Disconnect

Spec == Init /\ [][Next]_vars

\* The browser keeps firing animation frames: a queued callback is run in the end.
FrameCallback == FrameRenders \/ FrameRaises \/ FrameSkips

\* The elements of the specification with fairness: one of each tag with its
\* main attribute, the act-symbol with each decoration.
LiveAttrs(k) ==
    IF k = "act-symbol"
    THEN {a \in SymbolAttrs :
            /\ a["lr"] = Attr(<<"x">>)
            /\ \A n \in {"ll", "ul", "p", "symbol", "ur", "last_survivor"} : a[n] = Absent
            /\ a["precedence"] = AbsentJSON}
    ELSE {a \in AttrMaps(k) :
            /\ a["age"] = Attr(<<"x">>)
            /\ \A n \in (DOMAIN a) \ {"age"} : a[n] = Absent}

InitLive ==
    /\ kind \in Kinds
    /\ attrs \in LiveAttrs(kind)
    /\ rendered = FALSE
    /\ children = <<>>
    /\ frames = 0
    /\ sets = 0
    /\ runs = 0
    /\ connected = FALSE
    /\ NoParse

SpecLive == InitLive /\ [][Next]_vars /\ WF_vars(FrameCallback)

----------------------------------------------------------------------------
\* The draft of the library (actuarial-symbols.js): the same utilities as
\* top-level functions, and elements that render inside connectedCallback.

\* The connectedCallback invocations of one element that the model follows.
MaxConnects == 3

Actuarial == {<<"notation", "actuarial">>}

\* createMathML(tag, attrs, [content]) of the draft for a string content:
\* the string is assigned to textContent, which leaves no text node when the
\* string is empty.
draftLeaf(tag, as, s) ==
    [tag |-> tag, attrs |-> as,
     kids |-> IF s = <<>> THEN <<>> ELSE <<TextNode(s)>>,
     text |-> <<>>]

\* createAngle(content) of the draft
draftCreateAngle(content) ==
    createMathML("menclose", Actuarial, <<draftLeaf("mi", NoAttrs, content)>>)

\* The body of lives.forEach((life, index) => ...) of the draft's parseStatus.
draftPrecedenceNode(life, index, precedence) ==
    LET at == findPrec(precedence, index)
        base == draftLeaf("mi", NoAttrs, <<life>>)
    IN  IF findRaises(precedence, index) THEN ThrowNode
        ELSE IF at # 0
        THEN LET prec == precedence[at]
                 number == draftLeaf("mn", NoAttrs, numText(prec.num))
             IN  IF prec.top = "false"
                 THEN createMathML("munderover", NoAttrs, <<base, number, None>>)
                 ELSE createMathML("munderover", NoAttrs, <<base, None, number>>)
        ELSE base

\* parseStatus(text, precedence, lastSurvivor) of the draft
draftParseStatus(text, precedence, lastSurvivor) ==
    LET lives == SelectSeq(text, IsLetter)
    IN  IF Len(lives) = 0 THEN draftLeaf("mi", NoAttrs, text)
        ELSE IF lastSurvivor
        THEN LET innerMrow ==
                     createMathML("mrow", NoAttrs,
                         [i \in 1..Len(lives) |-> draftLeaf("mi", NoAttrs, <<lives[i]>>)])
             IN  createMathML("mover", NoAttrs,
                     <<innerMrow, draftLeaf("mo", NoAttrs, Macron)>>)
        ELSE IF precedence = NotAnArray THEN ThrowNode
        ELSE IF Len(precedence) = 0
        THEN IF Len(lives) = 1 THEN draftLeaf("mi", NoAttrs, <<lives[1]>>)
             ELSE createMathML("mrow", NoAttrs,
                      [i \in 1..Len(lives) |-> draftLeaf("mi", NoAttrs, <<lives[i]>>)])
        ELSE createMathML("mrow", NoAttrs,
                 [i \in 1..Len(lives) |->
                     draftPrecedenceNode(lives[i], i - 1, precedence)])

\* The first branch of the draft's parseSubscript.
draftReversionaryRow(text) ==
    LET parts == split(text, "|")
    IN  createMathML("mrow", NoAttrs,
            [j \in 1..(2 * Len(parts) - 1) |->
                IF j % 2 = 1 THEN draftLeaf("mi", NoAttrs, trim(parts[(j + 1) \div 2]))
                ELSE draftLeaf("mo", Stretchy, <<"|">>)])

\* The nodes the draft's colon branch appends for one trimmed duration part:
\* an angle for a duration letter, the deferral period and a divider for a
\* part holding a divider, a plain leaf otherwise.
draftDurationNodes(part, useAngle) ==
    IF useAngle /\ matchDurationLetter(part)
    THEN <<draftCreateAngle(part)>>
    ELSE IF includes(part, "|")
    THEN LET num == split(part, "|")[1]
         IN  <<IF useAngle /\ matchDurationLetter(num)
               THEN draftCreateAngle(num)
               ELSE draftLeaf("mi", NoAttrs, num),
               draftLeaf("mo", NoAttrs, <<"|">>)>>
    ELSE <<draftLeaf("mi", NoAttrs, part)>>

\* The loop over parts[1..] of the draft's colon branch.
RECURSIVE draftDurations(_, _)
draftDurations(parts, useAngle) ==
    IF parts = <<>> THEN <<>>
    ELSE <<draftLeaf("mo", NoAttrs, <<":">>)>>
            \o draftDurationNodes(trim(Head(parts)), useAngle)
            \o draftDurations(Tail(parts), useAngle)

\* parseSubscript(text, { useAngle, precedence, lastSurvivor }) of the draft
draftParseSubscript(text, useAngle, precedence, lastSurvivor) ==
    IF includes(text, "|") /\ ~matchDigitsDivider(text)
    THEN draftReversionaryRow(text)
    ELSE IF includes(text, ":")
    THEN LET parts == split(text, ":")
         IN  createMathML("mrow", NoAttrs,
                 <<draftParseStatus(parts[1], precedence, lastSurvivor)>>
                     \o draftDurations(Tail(parts), useAngle))
    ELSE draftParseStatus(text, precedence, lastSurvivor)

\* applyDecoration(symbol, decoration) of the draft: a chain of comparisons,
\* any other value leaves the symbol plain.
draftApplyDecoration(symbol, decoration) ==
    LET symbolEl == draftLeaf("mi", NoAttrs, symbol)
        mark == IF decoration = Bar THEN Macron
                ELSE IF decoration = Ddot THEN Diaeresis
                ELSE Ring
    IN  IF decoration \in {Bar, Ddot, RingName}
        THEN createMathML("mover", NoAttrs, <<symbolEl, draftLeaf("mo", NoAttrs, mark)>>)
        ELSE symbolEl

\* parseUpperRight(text) of the draft
draftParseUpperRight(text) ==
    IF text = <<>> THEN NullNode
    ELSE IF \/ Head(text) = "(" /\ text[Len(text)] = ")"
            \/ Head(text) = "{" /\ text[Len(text)] = "}"
    THEN createMathML("mrow", NoAttrs,
             <<draftLeaf("mo", NoAttrs, <<Head(text)>>),
               draftLeaf("mi", NoAttrs, SubSeq(text, 2, Len(text) - 1)),
               draftLeaf("mo", NoAttrs, <<text[Len(text)]>>)>>)
    ELSE draftLeaf("mi", NoAttrs, text)

\* The math node the draft's ActSymbol.connectedCallback builds, ThrowNode
\* when building it raises.
draftActSymbolMath(a) ==
    LET ll == attrOr(a, "ll", <<>>)
        ul == attrOr(a, "ul", <<>>)
        p == attrOr(a, "p", <<>>)
        symbol == attrOr(a, "symbol", <<>>)
        lr == attrOr(a, "lr", <<>>)
        ur == attrOr(a, "ur", <<>>)
        decoration == attrOr(a, "decoration", <<>>)
        lastSurvivor == a["last_survivor"].has
        parsed == JSONparse(IF a["precedence"].has /\ a["precedence"].val # ""
                            THEN a["precedence"].val ELSE "[]")
        precedence == IF parsed.ok THEN parsed.value ELSE <<>>
        math == createMathML("math", NoAttrs, <<>>)
        mainSymbol == draftApplyDecoration(symbol, decoration)
        lrElement == draftParseSubscript(lr, TRUE, precedence, lastSurvivor)
        finalSymbol ==
            IF ll # <<>> \/ ul # <<>>
            THEN createMathML("mmultiscripts", NoAttrs,
                     <<mainSymbol,
                       lrElement,
                       IF ur # <<>> THEN draftParseUpperRight(ur) ELSE None,
                       createMathML("mprescripts", NoAttrs, <<>>),
                       IF ll # <<>> THEN draftLeaf("mi", NoAttrs, ll) ELSE None,
                       IF ul # <<>> THEN draftLeaf("mi", NoAttrs, ul) ELSE None>>)
            ELSE IF lr # <<>> \/ ur # <<>>
            THEN createMathML(IF ur # <<>> THEN "msubsup" ELSE "msub", NoAttrs,
                     <<mainSymbol,
                       lrElement,
                       IF ur # <<>> THEN draftParseUpperRight(ur) ELSE NullNode>>)
            ELSE mainSymbol
    IN  IF p # <<>>
        THEN appendChild(appendChild(appendChild(appendChild(math,
                 draftLeaf("mi", NoAttrs, p)), draftLeaf("mo", NoAttrs, <<"(">>)),
                 finalSymbol), draftLeaf("mo", NoAttrs, <<")">>))
        ELSE appendChild(math, finalSymbol)

\* The math node the draft's ActAnnuity.connectedCallback builds.
draftActAnnuityMath(a) ==
    LET type == attrOr(a, "type", Immediate)
        lr == annuitySubscriptText(a)
        mainSymbol == draftApplyDecoration(<<"a">>, annuityDecoration(type))
        lrElement == draftParseSubscript(lr, TRUE, <<>>, FALSE)
        sub == createMathML(IF attrTruthy(a, "frequency") THEN "msubsup" ELSE "msub",
                   NoAttrs,
                   <<mainSymbol,
                     lrElement,
                     IF attrTruthy(a, "frequency")
                     THEN draftParseUpperRight(a["frequency"].val) ELSE NullNode>>)
    IN  appendChild(createMathML("math", NoAttrs, <<>>), sub)

draftMath(k, a) ==
    IF k = "act-symbol" THEN draftActSymbolMath(a) ELSE draftActAnnuityMath(a)

DraftKinds == {"act-symbol", "act-annuity"}

\* The draft's classes have no constructor and no field: rendered and frames
\* stay as they are, runs counts the connectedCallback invocations.
InitDraft ==
    /\ kind \in DraftKinds
    /\ attrs \in AttrMaps(kind)
    /\ rendered = FALSE
    /\ children = <<>>
    /\ frames = 0
    /\ sets = 0
    /\ runs = 0
    /\ connected = FALSE
    /\ NoParse

\* connectedCallback() of the draft when the math node is built: it is
\* appended to the element, at once and whatever the element holds already.
draftConnectedCallback ==
    /\ runs < MaxConnects
    /\ ~Throws(draftMath(kind, attrs))
    /\ children' = Append(children, draftMath(kind, attrs))
    /\ runs' = runs + 1
    /\ connected' = TRUE
    /\ UNCHANGED <<kind, attrs, rendered, frames, sets, parseVars>>

\* connectedCallback() of the draft when building the math node raises:
\* this.appendChild(math) is not reached.
draftConnectedCallbackRaises ==
    /\ runs < MaxConnects
    /\ Throws(draftMath(kind, attrs))
    /\ runs' = runs + 1
    /\ connected' = TRUE
    /\ UNCHANGED <<kind, attrs, rendered, children, frames, sets, parseVars>>

NextDraft ==
    \/ draftConnectedCallback
    \/ draftConnectedCallbackRaises
    \/ SetAttribute
    \/ Disconnect

SpecDraft == InitDraft /\ [][NextDraft]_vars

----------------------------------------------------------------------------
\* Reading a tree: what the properties below observe of a returned node.

\* The node is the element <tag> holding exactly the text s, with no attribute.
IsLeaf(node, tag, s) ==
    /\ node.tag = tag
    /\ node.attrs = {}
    /\ node.kids = <<TextNode(s)>>

\* The node is the divider mark <mo stretchy="false">|</mo>.
IsDivider(node) ==
    /\ node.tag = "mo"
    /\ node.kids = <<TextNode(<<"|">>)>>

\* The node is an overline group: <mover> of some content and the macron.
IsOverlined(node) ==
    /\ node.tag = "mover"
    /\ Len(node.kids) = 2
    /\ IsLeaf(node.kids[2], "mo", Macron)

RECURSIVE Flatten(_)
Flatten(ss) == IF ss = <<>> THEN <<>> ELSE Head(ss) \o Flatten(Tail(ss))

RECURSIVE Leaves(_)
\* The elements of the tree that hold text only, in document order.
Leaves(node) ==
    IF node.tag = "#text" THEN <<>>
    ELSE IF \A i \in 1..Len(node.kids) : node.kids[i].tag = "#text" THEN <<node>>
    ELSE Flatten([i \in 1..Len(node.kids) |-> Leaves(node.kids[i])])

RECURSIVE Descendants(_)
\* The elements of the tree, the node itself included, in document order.
Descendants(node) ==
    IF node.tag = "#text" THEN <<>>
    ELSE <<node>> \o Flatten([i \in 1..Len(node.kids) |-> Descendants(node.kids[i])])

\* The text an element holds directly.
TextOf(node) ==
    Flatten([i \in 1..Len(node.kids) |->
                IF node.kids[i].tag = "#text" THEN node.kids[i].text ELSE <<>>])

\* The texts of the <mi> leaves of the tree, in document order.
MiTexts(node) ==
    LET mis == SelectSeq(Leaves(node), LAMBDA n : n.tag = "mi")
    IN  [i \in 1..Len(mis) |-> TextOf(mis[i])]

\* The letters of a text, in order, each as a one-character text.
LettersOf(s) ==
    LET ls == SelectSeq(s, IsLetter)
    IN  [i \in 1..Len(ls) |-> <<ls[i]>>]

HasDivider(s) == \E i \in 1..Len(s) : s[i] = "|"

HasColon(s) == \E i \in 1..Len(s) : s[i] = ":"

\* Somewhere in s a digit stands immediately before a divider.
DigitBeforeDivider(s) == \E i \in 1..(Len(s) - 1) : IsDigit(s[i]) /\ s[i + 1] = "|"

Count(s, c) == Cardinality({i \in 1..Len(s) : s[i] = c})

\* The branch conditions of the Subscript Composer, as the specification words them.
TakesReversionary(s) == HasDivider(s) /\ ~DigitBeforeDivider(s)

TakesColon(s) == ~TakesReversionary(s) /\ HasColon(s)

\* A row whose second child is a divider mark: the shape of the reversionary branch.
ShapeReversionary(node) ==
    node.tag = "mrow" /\ Len(node.kids) >= 2 /\ IsDivider(node.kids[2])

\* A row whose second child is a colon: the shape of the colon branch.
ShapeColon(node) ==
    node.tag = "mrow" /\ Len(node.kids) >= 2 /\ IsLeaf(node.kids[2], "mo", <<":">>)

Called(fn) == call.fn = fn

----------------------------------------------------------------------------
\* Properties of the parsing functions, checked under SpecParse.

\* C1: parseSubscript chooses its branch in this order: a text with a divider
\* and no digit immediately before a divider gives the reversionary row;
\* otherwise a text with a colon gives the colon row; otherwise the result is
\* parseStatus(text, precedence, lastSurvivor). "60|x:n" is not reversionary,
\* "x|y" is.
C1_BranchOrder ==
    Called("parseSubscript") =>
        /\ TakesReversionary(input) => ShapeReversionary(ret)
        /\ TakesColon(input) => ShapeColon(ret) /\ ~ShapeReversionary(ret)
        /\ (~TakesReversionary(input) /\ ~HasColon(input)) =>
              /\ ret = parseStatus(input, call.precedence, call.lastSurvivor)
              /\ ~ShapeReversionary(ret)
              /\ ~ShapeColon(ret)
        /\ input = <<"6", "0", "|", "x", ":", "n">> => ~ShapeReversionary(ret)
        /\ input = <<"x", "|", "y">> => ShapeReversionary(ret)

C1_Witness ==
    /\ Called("parseSubscript")
    /\ input = <<"6", "0", "|", "x", ":", "n">>
    /\ ShapeColon(ret)

\* C3: in the reversionary branch the result is one row of the k sides of the
\* text and k-1 divider marks, alternating in the original order; each side
\* node holds the trimmed text of its side, with no colon leaf and no angle.
C3_ReversionaryRow ==
    (Called("parseSubscript") /\ TakesReversionary(input)) =>
        LET k == Count(input, "|") + 1
            sides == split(input, "|")
        IN  /\ Len(sides) = k
            /\ ret.tag = "mrow"
            /\ Len(ret.kids) = 2 * k - 1
            /\ \A i \in 1..(k - 1) : IsDivider(ret.kids[2 * i])
            /\ \A i \in 1..k :
                  LET side == ret.kids[2 * i - 1]
                      inside == Descendants(side)
                  IN  /\ Flatten(MiTexts(side)) = trim(sides[i])
                      /\ \A j \in 1..Len(inside) :
                            /\ ~IsDivider(inside[j])
                            /\ ~IsOverlined(inside[j])
                            /\ ~IsLeaf(inside[j], "mo", <<":">>)

C3_Witness ==
    /\ Called("parseSubscript")
    /\ input = <<"x", " ", "|", " ", "y">>
    /\ Len(ret.kids) = 3
    /\ IsLeaf(ret.kids[1], "mi", <<"x">>)
    /\ IsLeaf(ret.kids[3], "mi", <<"y">>)

\* C4: in the reversionary branch the node of each side equals what parseStatus
\* produces for the trimmed side; the left side of "xy|z" is a row of the
\* leaves x and y.
C4_SidesAreStatuses ==
    (Called("parseSubscript") /\ TakesReversionary(input)) =>
        LET sides == split(input, "|")
        IN  /\ Len(ret.kids) = 2 * Len(sides) - 1
            /\ \A i \in 1..Len(sides) :
                  ret.kids[2 * i - 1] = parseStatus(trim(sides[i]), <<>>, FALSE)

\* C5: in the colon branch, for the parts p0..pk of text.split(':') the result
\* is the row [parseStatus(p0), ':', node(p1), ..., ':', node(pk)] with exactly
\* k colon leaves, the parts in their original order.
C5_ColonRow ==
    (Called("parseSubscript") /\ TakesColon(input)) =>
        LET parts == split(input, ":")
            k == Count(input, ":")
            colons == {j \in 1..Len(ret.kids) : IsLeaf(ret.kids[j], "mo", <<":">>)}
        IN  /\ Len(parts) = k + 1
            /\ ret.tag = "mrow"
            /\ Len(ret.kids) = 2 * k + 1
            /\ ret.kids[1] = parseStatus(parts[1], call.precedence, call.lastSurvivor)
            /\ colons = {2 * i : i \in 1..k}
            /\ \A i \in 1..k :
                  MiTexts(ret.kids[2 * i + 1]) = <<trim(parts[i + 1])>>

C5_Witness ==
    /\ Called("parseSubscript")
    /\ input = <<"x", ":", "y", ":", "n">>
    /\ Len(ret.kids) = 5
    /\ MiTexts(ret) = << <<"x">>, <<"y">>, <<"n">> >>

\* C6: in the colon branch a trimmed duration part is angle-marked exactly
\* when the angle variant is not "none" and the part is one character of
\* {n, m, k, t} or consists only of digits; every other part is a plain leaf
\* of the part text.
C6_AngleEligibility ==
    (Called("parseSubscript") /\ TakesColon(input)) =>
        LET parts == split(input, ":")
        IN  \A i \in 2..Len(parts) :
                LET part == trim(parts[i])
                    node == ret.kids[2 * i - 1]
                    eligible ==
                        \/ Len(part) = 1 /\ part[1] \in {"n", "m", "k", "t"}
                        \/ Len(part) >= 1 /\ \A j \in 1..Len(part) : part[j] \in Digits
                IN  /\ IsOverlined(node) <=> (call.angleType # "none" /\ eligible)
                    /\ IsOverlined(node) =>
                          /\ node.kids[1].tag = "mrow"
                          /\ IsLeaf(node.kids[1].kids[1], "mi", part)
                    /\ ~IsOverlined(node) => IsLeaf(node, "mi", part)

C6_Witness ==
    /\ Called("parseSubscript")
    /\ call.angleType = "insurance"
    /\ input = <<"x", ":", "5">>
    /\ IsOverlined(ret.kids[3])

\* C7: createAngle(token, variant) is an overline group whose inner row is
\* [token leaf, divider mark] for 'annuity' and [token leaf] for 'insurance';
\* the divider is there exactly when the variant is 'annuity'.
C7_AngleVariants ==
    Called("createAngle") =>
        /\ IsOverlined(ret)
        /\ ret.kids[1].tag = "mrow"
        /\ LET row == ret.kids[1].kids
           IN  /\ Len(row) >= 1
               /\ IsLeaf(row[1], "mi", input)
               /\ call.angleType = "annuity" => Len(row) = 2 /\ IsDivider(row[2])
               /\ call.angleType = "insurance" => Len(row) = 1
               /\ (\E j \in 1..Len(row) : IsDivider(row[j])) <=> call.angleType = "annuity"

C7_Witness ==
    /\ Called("createAngle")
    /\ call.angleType = "insurance"
    /\ input = <<"n">>
    /\ Len(ret.kids[1].kids) = 1

\* The result is one overline over one row of the lives of the input, in order.
OverlinedLives(node, s) ==
    /\ IsOverlined(node)
    /\ node.kids[1].tag = "mrow"
    /\ Len(node.kids[1].kids) = Len(LettersOf(s))
    /\ \A i \in 1..Len(LettersOf(s)) : IsLeaf(node.kids[1].kids[i], "mi", LettersOf(s)[i])

\* C8 as claimed: parseStatus with lastSurvivor = true yields one overlined row
\* of all lives for every text and every precedence list, and the same result
\* for any two precedence lists.
C8_LastSurvivorEveryText ==
    (Called("parseStatus") /\ call.lastSurvivor) =>
        /\ OverlinedLives(ret, input)
        /\ \A p \in PrecedenceLists : parseStatus(input, p, TRUE) = ret

\* C8 amended: for every text that holds at least one letter, parseStatus with
\* lastSurvivor = true yields one overlined row of all lives in order, and the
\* same result for any two precedence lists; for every text the result is the
\* same for any two precedence lists.
C8_LastSurvivorWithLives ==
    (Called("parseStatus") /\ call.lastSurvivor) =>
        /\ LettersOf(input) # <<>> => OverlinedLives(ret, input)
        /\ \A p \in PrecedenceLists : parseStatus(input, p, TRUE) = ret

C8_Witness ==
    /\ Called("parseStatus")
    /\ call.lastSurvivor
    /\ call.precedence # <<>>
    /\ input = <<"x", "y">>
    /\ OverlinedLives(ret, input)

\* C10: the lives of parseStatus's output are the letters of the text in
\* their order, one node per letter and no other, for every precedence list;
\* the order of the list's entries does not change the order of the lives.
C10_LivesInTextOrder ==
    Called("parseStatus") =>
        /\ SelectSeq(MiTexts(ret), LAMBDA t : Len(t) = 1 /\ IsLetter(t[1])) = LettersOf(input)
        /\ LettersOf(input) # <<>> => MiTexts(ret) = LettersOf(input)
        /\ \A p \in PrecedenceLists :
              MiTexts(parseStatus(input, p, call.lastSurvivor)) = MiTexts(ret)

C10_Witness ==
    /\ Called("parseStatus")
    /\ ~call.lastSurvivor
    /\ Len(call.precedence) = 2
    /\ call.precedence[1].pos = 1
    /\ input = <<"x", "y">>
    /\ MiTexts(ret) = << <<"x">>, <<"y">> >>
    /\ ret.kids[1].tag = "munder"

\* The node shows the life with the order number of the annotation on the
\* annotation's side: above (<mover>) unless top is false, below (<munder>)
\* when top is false.
ShowsOrder(node, life, ann) ==
    /\ node.tag = (IF ann.top = "false" THEN "munder" ELSE "mover")
    /\ Len(node.kids) = 2
    /\ IsLeaf(node.kids[1], "mi", life)
    /\ IsLeaf(node.kids[2], "mn", NumberToString(ann.num))

\* The entries of a precedence list whose pos is the 0-based index.
AnnotationsAt(precedence, index) ==
    {j \in 1..Len(precedence) : precedence[j].pos = index}

\* C11: parseStatus with a non-empty precedence list and lastSurvivor = false
\* renders the life at index i of the letters of the text with the order
\* number above it when an annotation with pos = i exists and its top is not
\* false, below it when its top is false, and as a plain leaf when no
\* annotation has pos = i.
C11_PrecedenceSides ==
    (Called("parseStatus") /\ ~call.lastSurvivor /\ call.precedence # <<>>
        /\ LettersOf(input) # <<>>) =>
        LET lives == LettersOf(input)
        IN  /\ ret.tag = "mrow"
            /\ Len(ret.kids) = Len(lives)
            /\ \A i \in 1..Len(lives) :
                  LET anns == AnnotationsAt(call.precedence, i - 1)
                  IN  /\ anns = {} => IsLeaf(ret.kids[i], "mi", lives[i])
                      /\ anns # {} =>
                            \E j \in anns :
                                ShowsOrder(ret.kids[i], lives[i], call.precedence[j])

C11_Witness ==
    /\ Called("parseStatus")
    /\ ~call.lastSurvivor
    /\ input = <<"x", "y", "n">>
    /\ call.precedence = <<[pos |-> 1, num |-> 1, top |-> "absent"],
                           [pos |-> 0, num |-> 2, top |-> "false"]>>
    /\ ret.kids[1].tag = "munder"
    /\ ret.kids[2].tag = "mover"
    /\ IsLeaf(ret.kids[2].kids[2], "mn", <<"1">>)
    /\ IsLeaf(ret.kids[3], "mi", <<"n">>)

\* Two or more entries of the call's precedence list have the 0-based index as pos.
Duplicated(index) == Cardinality(AnnotationsAt(call.precedence, index)) >= 2

FirstAt(index) ==
    CHOOSE j \in AnnotationsAt(call.precedence, index) :
        \A k \in AnnotationsAt(call.precedence, index) : j <= k

LastAt(index) ==
    CHOOSE j \in AnnotationsAt(call.precedence, index) :
        \A k \in AnnotationsAt(call.precedence, index) : j >= k

\* C12 as claimed: when two annotations of the list have the same position,
\* parseStatus renders that life with the order number and side of the last
\* such annotation of the list.
C12_LastAnnotationWins ==
    (Called("parseStatus") /\ ~call.lastSurvivor) =>
        \A i \in 1..Len(LettersOf(input)) :
            Duplicated(i - 1) =>
                ShowsOrder(ret.kids[i], LettersOf(input)[i], call.precedence[LastAt(i - 1)])

\* C12 amended: when two annotations of the list have the same position,
\* parseStatus renders that life with the order number and side of the first
\* such annotation of the list; the later ones are never shown.
C12_FirstAnnotationWins ==
    (Called("parseStatus") /\ ~call.lastSurvivor) =>
        \A i \in 1..Len(LettersOf(input)) :
            Duplicated(i - 1) =>
                /\ ShowsOrder(ret.kids[i], LettersOf(input)[i], call.precedence[FirstAt(i - 1)])
                /\ ~ShowsOrder(ret.kids[i], LettersOf(input)[i], call.precedence[LastAt(i - 1)])

C12_Witness ==
    /\ Called("parseStatus")
    /\ ~call.lastSurvivor
    /\ input = <<"x", "y">>
    /\ call.precedence = <<[pos |-> 0, num |-> 1, top |-> "true"],
                           [pos |-> 0, num |-> 2, top |-> "false"]>>
    /\ ret.kids[1].tag = "mover"
    /\ IsLeaf(ret.kids[1].kids[2], "mn", <<"1">>)
    /\ IsLeaf(ret.kids[2], "mi", <<"y">>)

\* C13: parseStatus with an empty precedence list and lastSurvivor = false
\* returns a single leaf equal to the life when the text has exactly one
\* letter (the other characters are dropped), and a row of one leaf per letter,
\* in order, when the text has two or more letters.
C13_PlainStatus ==
    (Called("parseStatus") /\ ~call.lastSurvivor /\ call.precedence = <<>>) =>
        LET lives == LettersOf(input)
        IN  /\ Len(lives) = 1 => IsLeaf(ret, "mi", lives[1])
            /\ Len(lives) >= 2 =>
                  /\ ret.tag = "mrow"
                  /\ ret.attrs = {}
                  /\ Len(ret.kids) = Len(lives)
                  /\ \A i \in 1..Len(lives) : IsLeaf(ret.kids[i], "mi", lives[i])

C13_Witness ==
    /\ Called("parseStatus")
    /\ ~call.lastSurvivor
    /\ call.precedence = <<>>
    /\ input = <<"5", "x", ":">>
    /\ IsLeaf(ret, "mi", <<"x">>)

\* C14: when the text holds no letter (the empty text and "45" included),
\* parseStatus returns a single leaf whose text is the input unchanged, for
\* every precedence list and both values of lastSurvivor.
C14_RawTextFallback ==
    (Called("parseStatus") /\ LettersOf(input) = <<>>) =>
        /\ IsLeaf(ret, "mi", input)
        /\ \A p \in PrecedenceLists, l \in BOOLEAN : parseStatus(input, p, l) = ret

C14_Witness ==
    /\ Called("parseStatus")
    /\ call.lastSurvivor
    /\ call.precedence # <<>>
    /\ input = <<" ", "5", " ">>
    /\ IsLeaf(ret, "mi", <<" ", "5", " ">>)

\* The mark each decoration name stands for.
MarkOf(name) ==
    IF name = Bar THEN Macron ELSE IF name = Ddot THEN Diaeresis ELSE Ring

\* The node is the symbol under exactly one mark.
IsDecorated(node, symbol, mark) ==
    /\ node.tag = "mover"
    /\ Len(node.kids) = 2
    /\ IsLeaf(node.kids[1], "mi", symbol)
    /\ IsLeaf(node.kids[2], "mo", mark)

\* C15: applyDecoration(symbol, kind) returns the bare symbol leaf, without
\* raising, for every kind that is not bar, ddot or ring, the empty text and
\* texts such as "constructor" or "toString" included; for the three names it
\* returns the symbol under exactly one mark.
C15_DecorationLenient ==
    Called("applyDecoration") =>
        /\ ~Throws(ret)
        /\ call.decoration \notin {Bar, Ddot, RingName} => IsLeaf(ret, "mi", input)
        /\ call.decoration \in {Bar, Ddot, RingName} =>
              IsDecorated(ret, input, MarkOf(call.decoration))

\* C24: parseSubscript never raises: for every text, every angle variant,
\* both values of lastSurvivor and every precedence list, lists whose entries
\* lack fields or are null included, it returns some tree.
C24_NeverRaises ==
    (Called("parseSubscript") \/ Called("parseSubscriptMalformed")) =>
        /\ ~Throws(ret)
        /\ ret.tag \in {"mi", "mrow", "mover"}

----------------------------------------------------------------------------
\* Properties of the rendered elements, checked under Spec.

\* The symbol of a rendered <math>: its only child, or with the wrapper p the
\* child between the parentheses.
SymbolOf(math) == IF Len(math.kids) = 4 THEN math.kids[3] ELSE math.kids[1]

\* The symbol has a lower-right slot: it is a sub, subsup or multiscript form.
HasLowerRight(math) == SymbolOf(math).tag \in {"msub", "msubsup", "mmultiscripts"}

\* The node in the lower-right slot.
LowerRight(math) == SymbolOf(math).kids[2]

\* This step is the frame callback running render() to its end.
Renders == ~rendered /\ rendered'

\* The <math> node that step appended.
Appended == children'[Len(children')]

\* Among the leaves of the subscript, the text d stands immediately before a
\* divider mark, and more leaves follow the mark.
DeferAhead(sub, d) ==
    LET lv == Leaves(sub)
    IN  \E i \in 1..(Len(lv) - 2) : TextOf(lv[i]) = d /\ IsDivider(lv[i + 1])

\* C2: for act-annuity with a non-empty defer attribute, the rendered
\* lower-right subscript holds the defer value followed by a divider mark,
\* ahead of the status: the deferral prefix is never lost.
C2_DeferralShown ==
    [][(Renders /\ kind = "act-annuity" /\ attrTruthy(attrs, "defer")) =>
          /\ HasLowerRight(Appended)
          /\ DeferAhead(LowerRight(Appended), attrs["defer"].val)]_vars

\* The node is a bar over lives: an overline over a row of <mi> leaves only.
IsBarOverLives(node) ==
    /\ IsOverlined(node)
    /\ node.kids[1].tag = "mrow"
    /\ Len(node.kids[1].kids) >= 1
    /\ \A i \in 1..Len(node.kids[1].kids) :
          LET life == node.kids[1].kids[i]
          IN  life.tag = "mi" /\ Len(TextOf(life)) = 1 /\ IsLetter(TextOf(life)[1])

\* The letters of the status of a lower-right text: of the text before its
\* first colon.
StatusLetters(s) == LettersOf(split(s, ":")[1])

\* C9: for act-symbol with the last-survivor attribute, the rendered
\* lower-right subscript has a bar over its lives for every value of lr,
\* also one with a divider ("x|y") or a colon ("xy:n").
C9_LastSurvivorBar ==
    [][(Renders /\ kind = "act-symbol" /\ attrs["last_survivor"].has
            /\ StatusLetters(attrOr(attrs, "lr", <<>>)) # <<>>) =>
          /\ HasLowerRight(Appended)
          /\ LET sub == Descendants(LowerRight(Appended))
                 bars == {i \in 1..Len(sub) : IsBarOverLives(sub[i])}
             IN  /\ bars # {}
                 /\ Flatten([i \in 1..Len(sub) |->
                        IF i \in bars THEN MiTexts(sub[i]) ELSE <<>>])
                    = StatusLetters(attrOr(attrs, "lr", <<>>))]_vars


\* This step is the frame callback of an act-symbol element running render()
\* to its end.
RendersSymbol == Renders /\ kind = "act-symbol"

\* The value render() reads for an attribute of the element: '' when absent.
Corner(name) == attrOr(attrs, name, <<>>)

\* The node is the explicit empty-slot marker <none/>.
IsNone(node) == node.tag = "none" /\ node.kids = <<>>

\* The node is the base: the leaf of the symbol, bare or under one mark.
IsBase(node) ==
    LET symbol == attrOr(attrs, "symbol", <<"x">>)
    IN  \/ IsLeaf(node, "mi", symbol)
        \/ \E mark \in {Macron, Diaeresis, Ring} : IsDecorated(node, symbol, mark)

\* The texts of the leaves of the tree, joined in document order.
LeafText(node) ==
    Flatten([i \in 1..Len(Leaves(node)) |-> TextOf(Leaves(node)[i])])

\* The node shows a non-empty lower-right text: it is no empty-slot marker
\* and holds at least one identifier leaf.
IsComposed(node) == ~IsNone(node) /\ MiTexts(node) # <<>>

\* The symbol is the four-corner multiscript: six children in the order base,
\* lower-right, upper-right, prescript separator, lower-left, upper-left; the
\* corners present are shown, and an absent upper-right, lower-left or
\* upper-left corner is the empty-slot marker.
FourCorner(sym) ==
    /\ sym.tag = "mmultiscripts"
    /\ Len(sym.kids) = 6
    /\ IsBase(sym.kids[1])
    /\ Corner("lr") # <<>> => IsComposed(sym.kids[2])
    /\ IF Corner("ur") # <<>> THEN LeafText(sym.kids[3]) = Corner("ur")
       ELSE IsNone(sym.kids[3])
    /\ sym.kids[4].tag = "mprescripts" /\ sym.kids[4].kids = <<>>
    /\ IF Corner("ll") # <<>> THEN IsLeaf(sym.kids[5], "mi", Corner("ll"))
       ELSE IsNone(sym.kids[5])
    /\ IF Corner("ul") # <<>> THEN IsLeaf(sym.kids[6], "mi", Corner("ul"))
       ELSE IsNone(sym.kids[6])

\* The element has only the lower-right corner beside ul: without ul the
\* symbol is the plain sub form.
SwitchesToPrescripts ==
    (Corner("ul") # <<>> /\ Corner("ll") = <<>> /\ Corner("ur") = <<>>
        /\ Corner("lr") # <<>>) =>
        SymbolOf(ActSymbolRender([attrs EXCEPT !["ul"] = Absent])).tag = "msub"

\* C16 as claimed: in ActSymbol.render, whenever ll or ul is non-empty the
\* result is the four-corner multiscript with all slots in the fixed order;
\* every absent corner, the lower-right one included, is the empty-slot
\* marker; adding ul to a set with only lr switches from the sub form to the
\* prescript form.
C16_AbsentCornersAreMarkers ==
    [][(RendersSymbol /\ (Corner("ll") # <<>> \/ Corner("ul") # <<>>)) =>
          /\ FourCorner(SymbolOf(Appended))
          /\ Corner("lr") = <<>> => IsNone(LowerRight(Appended))
          /\ SwitchesToPrescripts]_vars

\* C16 amended: in ActSymbol.render, whenever ll or ul is non-empty the result
\* is the four-corner multiscript with all six slots in the fixed order and no
\* slot omitted; an absent upper-right, lower-left or upper-left corner is the
\* empty-slot marker, and an absent lower-right corner is an identifier leaf
\* with empty text; adding ul to a set with only lr switches from the sub
\* form to the prescript form.
C16_FourCornerSlots ==
    [][(RendersSymbol /\ (Corner("ll") # <<>> \/ Corner("ul") # <<>>)) =>
          /\ FourCorner(SymbolOf(Appended))
          /\ Corner("lr") = <<>> => IsLeaf(LowerRight(Appended), "mi", <<>>)
          /\ SwitchesToPrescripts]_vars

C16_Witness ==
    /\ kind = "act-symbol"
    /\ rendered
    /\ Len(children) = 1
    /\ attrs["ul"] = Attr(<<"k">>)
    /\ ~attrs["ll"].has
    /\ ~attrs["ur"].has
    /\ attrs["lr"] = Attr(<<"x">>)
    /\ SymbolOf(children[1]).tag = "mmultiscripts"
    /\ Len(SymbolOf(children[1]).kids) = 6
    /\ IsNone(SymbolOf(children[1]).kids[3])
    /\ IsNone(SymbolOf(children[1]).kids[5])
    /\ IsLeaf(SymbolOf(children[1]).kids[6], "mi", <<"k">>)


\* Neither left corner is set.
NoPrescripts == Corner("ll") = <<>> /\ Corner("ul") = <<>>

\* The symbol is the plain sub form: the base and the composed lower-right
\* node, with no slot for an upper-right corner.
SubForm(sym) ==
    /\ sym.tag = "msub"
    /\ Len(sym.kids) = 2
    /\ IsBase(sym.kids[1])
    /\ IsComposed(sym.kids[2])

\* C17 as claimed: in ActSymbol.render with ll and ul empty, when exactly one
\* of lr and ur is non-empty the result is single-sided: the sub form (base,
\* lower-right) when only lr is set, the sup form (base, upper-right) when
\* only ur is set, with no slot for the absent corner.
C17_SingleSidedForms ==
    [][(RendersSymbol /\ NoPrescripts) =>
          LET sym == SymbolOf(Appended)
          IN  /\ (Corner("lr") # <<>> /\ Corner("ur") = <<>>) => SubForm(sym)
              /\ (Corner("lr") = <<>> /\ Corner("ur") # <<>>) =>
                    /\ sym.tag = "msup"
                    /\ Len(sym.kids) = 2
                    /\ IsBase(sym.kids[1])
                    /\ LeafText(sym.kids[2]) = Corner("ur")]_vars

\* C17 amended: in ActSymbol.render with ll and ul empty, when only lr is
\* non-empty the result is the sub form (base, lower-right) with no slot for
\* the upper-right corner; when only ur is non-empty the result is the sub-sup
\* form of three children: the base, an identifier leaf with empty text in the
\* lower-right slot, and the upper-right node.
C17_SubOrEmptySubSup ==
    [][(RendersSymbol /\ NoPrescripts) =>
          LET sym == SymbolOf(Appended)
          IN  /\ (Corner("lr") # <<>> /\ Corner("ur") = <<>>) => SubForm(sym)
              /\ (Corner("lr") = <<>> /\ Corner("ur") # <<>>) =>
                    /\ sym.tag = "msubsup"
                    /\ Len(sym.kids) = 3
                    /\ IsBase(sym.kids[1])
                    /\ IsLeaf(sym.kids[2], "mi", <<>>)
                    /\ LeafText(sym.kids[3]) = Corner("ur")]_vars

C17_Witness ==
    /\ kind = "act-symbol"
    /\ rendered
    /\ Len(children) = 1
    /\ ~attrs["ll"].has /\ ~attrs["ul"].has /\ ~attrs["lr"].has
    /\ attrs["ur"] = Attr(<<"(", "m", ")">>)
    /\ SymbolOf(children[1]).tag = "msubsup"
    /\ IsLeaf(SymbolOf(children[1]).kids[2], "mi", <<>>)
    /\ LeafText(SymbolOf(children[1]).kids[3]) = <<"(", "m", ")">>


\* C18: in ActSymbol.render with ll and ul empty, when lr and ur are both
\* non-empty the result is the sub-sup form of exactly three children in the
\* order base, composed lower-right, upper-right; when lr and ur are both
\* empty the result is the decorated base alone.
C18_SubSupOrBase ==
    [][(RendersSymbol /\ NoPrescripts) =>
          LET sym == SymbolOf(Appended)
          IN  /\ (Corner("lr") # <<>> /\ Corner("ur") # <<>>) =>
                    /\ sym.tag = "msubsup"
                    /\ Len(sym.kids) = 3
                    /\ IsBase(sym.kids[1])
                    /\ IsComposed(sym.kids[2])
                    /\ sym.kids[2] =
                          LowerRight(ActSymbolRender([attrs EXCEPT !["ur"] = Absent]))
                    /\ LeafText(sym.kids[3]) = Corner("ur")
              /\ (Corner("lr") = <<>> /\ Corner("ur") = <<>>) =>
                    /\ IsBase(sym)
                    /\ Corner("decoration") = Bar =>
                          IsDecorated(sym, attrOr(attrs, "symbol", <<"x">>), Macron)
                    /\ Corner("decoration") = <<>> =>
                          IsLeaf(sym, "mi", attrOr(attrs, "symbol", <<"x">>))]_vars

C18_Witness ==
    /\ kind = "act-symbol"
    /\ rendered
    /\ Len(children) = 1
    /\ ~attrs["ll"].has /\ ~attrs["ul"].has
    /\ attrs["lr"] = Attr(<<"x", "y", ":", "n">>)
    /\ attrs["ur"] = Attr(<<"(", "m", ")">>)
    /\ attrs["decoration"] = Attr(Bar)
    /\ SymbolOf(children[1]).tag = "msubsup"
    /\ Len(SymbolOf(children[1]).kids) = 3
    /\ IsDecorated(SymbolOf(children[1]).kids[1], attrOr(attrs, "symbol", <<"x">>), Macron)
    /\ SymbolOf(children[1]).kids[3].tag = "mrow"


\* The shape the corner attributes choose, by the tag of the tree's root.
HasCornerShape(tree) ==
    IF Corner("ll") # <<>> \/ Corner("ul") # <<>> THEN tree.tag = "mmultiscripts"
    ELSE IF Corner("ur") # <<>> THEN tree.tag = "msubsup"
    ELSE IF Corner("lr") # <<>> THEN tree.tag = "msub"
    ELSE IsBase(tree)

\* C19: in ActSymbol.render, when p is non-empty the children of the output
\* are [leaf(p), "(", tree, ")"], where tree is exactly the tree the same
\* attributes give without p; when p is empty the output holds that tree
\* alone. The wrapper never changes the shape chosen for the corners.
C19_WrapperAroundTree ==
    [][RendersSymbol =>
          LET bare == ActSymbolRender([attrs EXCEPT !["p"] = Absent])
          IN  /\ Appended.tag = "math"
              /\ Len(bare.kids) = 1
              /\ HasCornerShape(bare.kids[1])
              /\ Corner("p") # <<>> =>
                    /\ Len(Appended.kids) = 4
                    /\ IsLeaf(Appended.kids[1], "mi", Corner("p"))
                    /\ IsLeaf(Appended.kids[2], "mo", <<"(">>)
                    /\ Appended.kids[3] = bare.kids[1]
                    /\ IsLeaf(Appended.kids[4], "mo", <<")">>)
              /\ Corner("p") = <<>> =>
                    /\ Len(Appended.kids) = 1
                    /\ Appended.kids[1] = bare.kids[1]]_vars

C19_Witness ==
    /\ kind = "act-symbol"
    /\ rendered
    /\ Len(children) = 1
    /\ attrs["p"] = Attr(<<"P">>)
    /\ attrs["lr"] = Attr(<<"x">>)
    /\ ~attrs["ll"].has /\ ~attrs["ul"].has /\ ~attrs["ur"].has
    /\ Len(children[1].kids) = 4
    /\ IsLeaf(children[1].kids[1], "mi", <<"P">>)
    /\ IsLeaf(children[1].kids[2], "mo", <<"(">>)
    /\ children[1].kids[3].tag = "msub"
    /\ IsLeaf(children[1].kids[4], "mo", <<")">>)


\* C20: for one element, under any sequence of connectedCallback invocations
\* and animation-frame callbacks, render() is executed at most once and the
\* element has at most one math child.
C20_RenderAtMostOnce ==
    /\ runs <= 1
    /\ Len(children) <= 1


\* C28: once an element has rendered, no later event changes its output:
\* further connectedCallback invocations, frame callbacks and attribute
\* changes all leave the element's children unchanged, and the flag stays true.
C28_OutputFrozen ==
    [][rendered => (children' = children /\ rendered')]_vars

\* A rendered element whose attribute was changed after the render: its child
\* is no longer what its attributes would render to.
C28_Witness ==
    /\ rendered
    /\ sets = 1
    /\ Len(children) = 1
    /\ ~Throws(render(kind, attrs))
    /\ children[1] # render(kind, attrs)


\* This step is a frame callback: one queued callback is consumed.
FrameFires == frames' = frames - 1

\* C29: if render() raises inside the frame callback, the element's children
\* are unchanged and the rendered flag stays false, so every other frame
\* callback, already queued or queued by a later connectedCallback, executes
\* render() again.
C29_RaisedRenderRetried ==
    [][(FrameFires /\ ~rendered) =>
          /\ runs' = runs + 1
          /\ rendered' <=> ~Throws(render(kind, attrs))
          /\ Throws(render(kind, attrs)) => children' = children]_vars

\* Two frame callbacks have executed render(), both raised.
C29_Witness ==
    /\ runs = 2
    /\ ~rendered
    /\ children = <<>>
    /\ Throws(render(kind, attrs))


\* The letters among the identifier leaves of a tree, in document order.
LettersShown(node) == SelectSeq(Flatten(MiTexts(node)), IsLetter)

\* C21: render() never runs inside connectedCallback; it runs only in a later
\* animation-frame callback and reads the attribute values present at that
\* frame, so an attribute set between the connect and the frame is reflected
\* in the rendered output.
C21_RenderDeferredToFrame ==
    [][/\ frames' = frames + 1 => UNCHANGED <<rendered, children, runs>>
       /\ (runs' # runs \/ children' # children \/ rendered' # rendered) =>
             (frames > 0 /\ FrameFires)
       /\ Renders =>
             /\ children' = Append(children, render(kind, attrs))
             /\ (kind = "act-symbol" /\ Corner("lr") # <<>>) =>
                   /\ HasLowerRight(Appended)
                   /\ LettersShown(LowerRight(Appended)) = SelectSeq(Corner("lr"), IsLetter)
             /\ (kind = "act-symbol" /\ Corner("lr") = <<>> /\ NoPrescripts
                    /\ Corner("ur") = <<>>) => ~HasLowerRight(Appended)]_vars

\* An element whose lr was set by the page, rendered with that value.
C21_Witness ==
    /\ kind = "act-symbol"
    /\ rendered
    /\ sets = 1
    /\ attrs["lr"] = Attr(<<"x", "|", "y">>)
    /\ Len(children) = 1
    /\ HasLowerRight(children[1])
    /\ ShapeReversionary(LowerRight(children[1]))


\* C22: once connectedCallback has run on an element, its deferred render
\* cannot be cancelled: with animation frames firing, the element is rendered
\* in the end, also when it is disconnected before the frame fires.
C22_EventuallyRendered == (frames > 0) ~> rendered


\* This step is the frame callback of an act-annuity element running render()
\* to its end.
RendersAnnuity == Renders /\ kind = "act-annuity"

\* The attributes with term folded into age: age + ":" + term, and no term.
TermInAge ==
    [attrs EXCEPT !["age"] = Attr(attrs["age"].val \o <<":">> \o attrs["term"].val),
                  !["term"] = Absent]

\* C25 as claimed: for act-annuity, for every age without colon and every
\* non-empty term, the attributes (age, term) render to exactly the tree of the
\* single attribute age = age + ":" + term without term.
C25_TermJoinsEveryAge ==
    [][(RendersAnnuity /\ attrs["age"].has /\ ~HasColon(attrs["age"].val)
            /\ attrTruthy(attrs, "term")) =>
          Appended = ActAnnuityRender(TermInAge)]_vars

\* C25 amended: for act-annuity, for every non-empty age without colon and
\* every non-empty term, the attributes (age, term) render to exactly the tree
\* of the single attribute age = age + ":" + term without term.
C25_TermJoinsAge ==
    [][(RendersAnnuity /\ attrTruthy(attrs, "age") /\ ~HasColon(attrs["age"].val)
            /\ attrTruthy(attrs, "term")) =>
          /\ Appended = ActAnnuityRender(TermInAge)
          /\ ~attrTruthy(attrs, "defer") =>
                \E i \in 1..Len(MiTexts(LowerRight(Appended))) :
                    MiTexts(LowerRight(Appended))[i] = attrs["term"].val]_vars

C25_Witness ==
    /\ kind = "act-annuity"
    /\ rendered
    /\ Len(children) = 1
    /\ attrs["age"] = Attr(<<"x">>)
    /\ attrs["term"] = Attr(<<"n">>)
    /\ ~attrs["defer"].has
    /\ ShapeColon(LowerRight(children[1]))
    /\ MiTexts(LowerRight(children[1])) = << <<"x">>, <<"n">> >>

\* C26: for act-annuity, when term is given and age already holds a duration
\* after a colon, term overrides it: the rendered subscript shows the term
\* value, not the duration written in age.
C26_TermOverridesAge ==
    [][(RendersAnnuity /\ attrTruthy(attrs, "term") /\ attrs["age"].has
            /\ HasColon(attrs["age"].val)) =>
          LET shown == MiTexts(LowerRight(Appended))
              written == trim(split(attrs["age"].val, ":")[2])
          IN  /\ \E i \in 1..Len(shown) : shown[i] = attrs["term"].val
              /\ written # attrs["term"].val =>
                    \A i \in 1..Len(shown) : shown[i] # written]_vars


\* This step is the frame callback of an act-insurance element running
\* render() to its end.
RendersInsurance == Renders /\ kind = "act-insurance"

\* C27: for act-insurance, whenever the frequency attribute is non-empty it
\* appears in the upper-right position of the rendered symbol, for every
\* insurance type (whole, term, endowment, pure-endowment).
C27_FrequencyUpperRight ==
    [][(RendersInsurance /\ attrTruthy(attrs, "frequency")) =>
          LET sym == Appended.kids[1]
          IN  /\ sym.tag \in {"msubsup", "mmultiscripts"}
              /\ LeafText(sym.kids[3]) = attrs["frequency"].val]_vars


\* Texts of the precedence attribute that do not decode to a list: no valid
\* JSON, or JSON of another value.
NotListTexts == {"oops", "null", "5", "{}"}

\* C23: for every value of the act-symbol precedence attribute that does not
\* decode to a list of annotations (no valid JSON, or JSON whose value is not a
\* list), ActSymbol.render completes without raising and produces the output
\* it produces with an empty precedence list.
C23_UndecodablePrecedence ==
    [][(FrameFires /\ ~rendered /\ kind = "act-symbol"
            /\ attrs["precedence"].has /\ attrs["precedence"].val \in NotListTexts) =>
          LET plain == ActSymbolRender([attrs EXCEPT !["precedence"] = AbsentJSON])
          IN  ~Throws(plain) =>
                  /\ rendered'
                  /\ children' = Append(children, plain)]_vars

\* C30: in the draft every connectedCallback invocation appends exactly one
\* new math child: after n invocations on the same element it holds n math
\* children.
C30_EveryConnectAppends ==
    /\ Len(children) = runs
    /\ \A i \in 1..Len(children) : children[i].tag = "math"

====
